---- MODULE Spec2Model ----
(***************************************************************************)
(* Model of glance/registry/__init__.py: the registry client facade.       *)
(*                                                                         *)
(* The module-level globals _CLIENT_CREDS, _CLIENT_HOST, _CLIENT_PORT,     *)
(* _CLIENT_KWARGS and _METADATA_ENCRYPTION_KEY are the state.  Python      *)
(* dicts are objects of a heap (object id -> mapping), so that rebinding a *)
(* global to a fresh dict, copying a dict and updating a dict in place are *)
(* different things in the model as they are in the program.               *)
(*                                                                         *)
(* Python values: None is the string "None"; str values are strings;       *)
(* int and bool values are numbers and booleans; the protocol string is a  *)
(* sequence of characters so that str.lower() is computed.                 *)
(***************************************************************************)
EXTENDS Naturals, Sequences, FiniteSets, TLC

VARIABLES
    _CLIENT_CREDS,             \* NullRef or the id of the credentials dict
    _CLIENT_HOST,              \* None or the registry host
    _CLIENT_PORT,              \* None or the registry port
    _CLIENT_KWARGS,            \* id of the transport options dict
    _METADATA_ENCRYPTION_KEY,  \* None or the key
    heap,                      \* live dict objects: id -> mapping
    handles,                   \* RegistryClient objects built so far
    LOG,                       \* log entries emitted, in order
    wire,                      \* calls the wire client has received, in order
    ret,                       \* the last call of this module and how it ended
    built,                     \* history: what was true when handles[i] was built
    calls,                     \* history: the delegation calls made, in order
    nConn,                     \* history: configure_registry_client calls made
    nCreds,                    \* history: configure_registry_admin_creds calls made
    gen,                       \* history: the call that wrote each cached field
    lastConn                   \* history: the last configure_registry_client call

vars == <<_CLIENT_CREDS, _CLIENT_HOST, _CLIENT_PORT, _CLIENT_KWARGS,
          _METADATA_ENCRYPTION_KEY, heap, handles, LOG, wire, ret, built,
          calls, nConn, nCreds, gen, lastConn>>

None == "None"

\* a global that refers to no object (line 81: _CLIENT_CREDS = None)
NullRef == 0

(***************************************************************************)
(* Bounds of the model.                                                    *)
(***************************************************************************)
MaxConn == 2        \* configure_registry_client calls in a behaviour
MaxCreds == 2       \* configure_registry_admin_creds calls in a behaviour
MaxHandles == 2     \* handles built in a behaviour
MaxCalls == 2       \* delegation calls in a behaviour

(***************************************************************************)
(* Python dicts and the heap.                                              *)
(***************************************************************************)
EmptyDict == [k \in {} |-> None]

\* d[k] = v on a dict value
DictSet(d, k, v) == (k :> v) @@ d

\* the id a newly created object gets
NewId(h) == CHOOSE n \in 1..(Cardinality(DOMAIN h) + 1) :
                /\ n \notin DOMAIN h
                /\ \A m \in 1..(n - 1) : m \in DOMAIN h

\* a new dict object holding d
Alloc(h, d) == (NewId(h) :> d) @@ h

\* the ids a handle keeps alive: its keyword mapping and the creds dict in it
HandleRefs(h, c) ==
    {c.kwargs} \cup (IF c.kwargs \in DOMAIN h /\ "creds" \in DOMAIN h[c.kwargs]
                     THEN {h[c.kwargs]["creds"]} ELSE {})

\* reference counting: an object nothing refers to is freed
Collect(h, kwargsRef, credsRef, hs) ==
    LET roots == {kwargsRef}
                 \cup (IF credsRef = NullRef THEN {} ELSE {credsRef})
                 \cup UNION {HandleRefs(h, hs[i]) : i \in 1..Len(hs)}
    IN  [i \in (DOMAIN h) \cap roots |-> h[i]]

(***************************************************************************)
(* str.lower() on the characters the protocol option is written with.      *)
(***************************************************************************)
LowerChar(ch) ==
    CASE ch = "H" -> "h"
      [] ch = "T" -> "t"
      [] ch = "P" -> "p"
      [] ch = "S" -> "s"
      [] ch = "F" -> "f"
      [] OTHER -> ch

lower(s) == [i \in DOMAIN s |-> LowerChar(s[i])]

https == <<"h", "t", "t", "p", "s">>
http == <<"h", "t", "t", "p">>

(***************************************************************************)
(* The process configuration CONF as configure_registry_client sees it.    *)
(* conf.errors maps an option to the exception its lookup raises:          *)
(* cfg.ConfigFileValueError for an IntOpt or BoolOpt whose text does not   *)
(* parse, IndexError for a host or port that cannot be located.  A StrOpt  *)
(* takes any text, and an option left out has its default or is None.      *)
(***************************************************************************)
ConfigFileValueError == "ConfigFileValueError"
IndexError == "IndexError"
BadRegistryConnectionConfiguration == "BadRegistryConnectionConfiguration"

SiteA == [registry_host |-> "10.0.0.5",
          registry_port |-> 9292,
          metadata_encryption_key |-> "k16",
          registry_client_protocol |-> https,
          registry_client_key_file |-> "a.key",
          registry_client_cert_file |-> "a.crt",
          registry_client_ca_file |-> "a.ca",
          registry_client_insecure |-> TRUE,
          registry_client_timeout |-> 0,
          errors |-> EmptyDict]

\* the declared defaults (lines 33-58)
SiteB == [registry_host |-> "0.0.0.0",
          registry_port |-> 9191,
          metadata_encryption_key |-> None,
          registry_client_protocol |-> http,
          registry_client_key_file |-> None,
          registry_client_cert_file |-> None,
          registry_client_ca_file |-> None,
          registry_client_insecure |-> FALSE,
          registry_client_timeout |-> 600,
          errors |-> EmptyDict]

Protocols == {http, https,
              <<"H", "T", "T", "P", "S">>, <<"H", "t", "t", "p", "s">>,
              <<"H", "T", "T", "P">>, <<"f", "t", "p">>}

\* the lookups that can raise, and what they raise
Faults == {[opt |-> "registry_host", exc |-> IndexError],
           [opt |-> "registry_port", exc |-> IndexError],
           [opt |-> "registry_port", exc |-> ConfigFileValueError],
           [opt |-> "registry_client_insecure", exc |-> ConfigFileValueError],
           [opt |-> "registry_client_timeout", exc |-> ConfigFileValueError]}

ValidConfs ==
    {[SiteA EXCEPT !.registry_client_protocol = p] : p \in Protocols}
    \cup {SiteB,
          [SiteB EXCEPT !.registry_client_protocol = <<"H", "T", "T", "P", "S">>],
          [SiteA EXCEPT !.registry_client_key_file = None],
          [SiteA EXCEPT !.registry_client_insecure = FALSE],
          [SiteB EXCEPT !.registry_client_ca_file = "b.ca"],
          [SiteB EXCEPT !.registry_client_timeout = 30]}

FaultyConfs ==
    {[s EXCEPT !.errors = (f.opt :> f.exc)] : s \in {SiteA, SiteB}, f \in Faults}

ConnConfs == ValidConfs \cup FaultyConfs

(***************************************************************************)
(* configure_registry_client (lines 89-115), as a function of CONF.        *)
(***************************************************************************)
\* CONF.<opt> raises
Raises(conf, opt) == opt \in DOMAIN conf.errors

\* the exception the try block (line 95) ends with, or None
LookupError(conf) ==
    IF Raises(conf, "registry_host") THEN conf.errors["registry_host"]
    ELSE IF Raises(conf, "registry_port") THEN conf.errors["registry_port"]
    ELSE None

\* the except clauses (lines 96-103): what is logged and what is raised
HandleLookupError(exc) ==
    IF exc = ConfigFileValueError
    THEN [emitted |-> <<[level |-> "error", msg |-> "Configuration option was not valid"]>>,
          raised |-> BadRegistryConnectionConfiguration]
    ELSE IF exc = IndexError
    THEN [emitted |-> <<[level |-> "error",
                         msg |-> "Could not find required configuration option"]>>,
          raised |-> BadRegistryConnectionConfiguration]
    ELSE [emitted |-> <<>>, raised |-> exc]

\* the exception the dict display (lines 108-115) ends with, or None; its
\* items are evaluated in the order written
KwargsError(conf) ==
    IF Raises(conf, "registry_client_insecure")
    THEN conf.errors["registry_client_insecure"]
    ELSE IF Raises(conf, "registry_client_timeout")
    THEN conf.errors["registry_client_timeout"]
    ELSE None

\* line 109
UseSsl(protocol) == lower(protocol) = https

\* the dict display of lines 108-115
ClientKwargsSwapped(conf) ==
    [use_ssl |-> UseSsl(conf.registry_client_protocol),
     key_file |-> conf.registry_client_cert_file,
     cert_file |-> conf.registry_client_key_file,
     ca_file |-> conf.registry_client_ca_file,
     insecure |-> conf.registry_client_insecure,
     timeout |-> conf.registry_client_timeout]
ClientKwargs(conf) ==
    [use_ssl |-> UseSsl(conf.registry_client_protocol),
     key_file |-> conf.registry_client_key_file,
     cert_file |-> conf.registry_client_cert_file,
     ca_file |-> conf.registry_client_ca_file,
     insecure |-> conf.registry_client_insecure,
     timeout |-> conf.registry_client_timeout]

configure_registry_client(conf) ==
    /\ nConn < MaxConn
    /\ nConn' = nConn + 1
    /\ IF LookupError(conf) # None
       THEN \* lines 96-103: nothing has been assigned
            LET e == HandleLookupError(LookupError(conf)) IN
            /\ LOG' = LOG \o e.emitted
            /\ ret' = [op |-> "configure_registry_client", raised |-> e.raised,
                       emitted |-> e.emitted]
            /\ lastConn' = [conf |-> conf, raised |-> e.raised, n |-> nConn']
            /\ UNCHANGED <<_CLIENT_HOST, _CLIENT_PORT, _METADATA_ENCRYPTION_KEY,
                           _CLIENT_KWARGS, heap, gen>>
       ELSE \* lines 105-107
            /\ _CLIENT_HOST' = conf.registry_host
            /\ _CLIENT_PORT' = conf.registry_port
            /\ _METADATA_ENCRYPTION_KEY' = conf.metadata_encryption_key
            /\ IF KwargsError(conf) # None
               THEN \* the dict display raises: _CLIENT_KWARGS is not rebound
                    /\ ret' = [op |-> "configure_registry_client",
                               raised |-> KwargsError(conf), emitted |-> <<>>]
                    /\ lastConn' = [conf |-> conf, raised |-> KwargsError(conf),
                                    n |-> nConn']
                    /\ gen' = [gen EXCEPT !.host = nConn', !.port = nConn',
                                          !.key = nConn']
                    /\ UNCHANGED <<_CLIENT_KWARGS, heap, LOG>>
               ELSE \* lines 108-115: a new dict, bound to _CLIENT_KWARGS
                    /\ _CLIENT_KWARGS' = NewId(heap)
                    /\ heap' = Collect(Alloc(heap, ClientKwargs(conf)),
                                       _CLIENT_KWARGS', _CLIENT_CREDS, handles)
                    /\ ret' = [op |-> "configure_registry_client", raised |-> None,
                               emitted |-> <<>>]
                    /\ lastConn' = [conf |-> conf, raised |-> None, n |-> nConn']
                    /\ gen' = [host |-> nConn', port |-> nConn', key |-> nConn',
                               kwargs |-> nConn']
                    /\ UNCHANGED LOG
    /\ UNCHANGED <<_CLIENT_CREDS, handles, wire, built, calls, nCreds>>

(***************************************************************************)
(* configure_registry_admin_creds (lines 118-134), as a function of CONF   *)
(* and of os.getenv('OS_AUTH_URL').                                        *)
(***************************************************************************)
\* the truth value Python gives an optional string
Truthy(v) == v # None /\ v # ""

\* lines 121-124
StrategyConfOnly(auth_url, os_auth_url, auth_strategy) ==
    IF Truthy(auth_url) THEN "keystone" ELSE auth_strategy
Strategy(auth_url, os_auth_url, auth_strategy) ==
    IF Truthy(auth_url) \/ Truthy(os_auth_url) THEN "keystone" ELSE auth_strategy

\* the dict display of lines 126-134
ClientCredsEnvUrl(conf, os_auth_url) ==
    [user |-> conf.admin_user,
     password |-> conf.admin_password,
     username |-> conf.admin_user,
     tenant |-> conf.admin_tenant_name,
     auth_url |-> IF Truthy(conf.auth_url) THEN conf.auth_url ELSE os_auth_url,
     strategy |-> Strategy(conf.auth_url, os_auth_url, conf.auth_strategy),
     region |-> conf.auth_region]
ClientCreds(conf, os_auth_url) ==
    [user |-> conf.admin_user,
     password |-> conf.admin_password,
     username |-> conf.admin_user,
     tenant |-> conf.admin_tenant_name,
     auth_url |-> conf.auth_url,
     strategy |-> Strategy(conf.auth_url, os_auth_url, conf.auth_strategy),
     region |-> conf.auth_region]

\* line 126: _CLIENT_CREDS is rebound to a new dict
BindCredsInPlace(d) ==
    IF _CLIENT_CREDS = NullRef
    THEN [ref |-> NewId(heap), heap |-> Alloc(heap, d)]
    ELSE [ref |-> _CLIENT_CREDS, heap |-> [heap EXCEPT ![_CLIENT_CREDS] = d]]
BindCreds(d) == [ref |-> NewId(heap), heap |-> Alloc(heap, d)]

configure_registry_admin_creds(conf, os_auth_url) ==
    /\ nCreds < MaxCreds
    /\ nCreds' = nCreds + 1
    /\ LET b == BindCreds(ClientCreds(conf, os_auth_url)) IN
       /\ _CLIENT_CREDS' = b.ref
       /\ heap' = Collect(b.heap, _CLIENT_KWARGS, b.ref, handles)
    /\ ret' = [op |-> "configure_registry_admin_creds", raised |-> None,
               conf |-> conf, os_auth_url |-> os_auth_url]
    /\ UNCHANGED <<_CLIENT_HOST, _CLIENT_PORT, _CLIENT_KWARGS,
                   _METADATA_ENCRYPTION_KEY, handles, LOG, wire, built, calls,
                   nConn, gen, lastConn>>

\* the values the credential options and the environment variable take
OptStr(v) == {None, v}
AuthUrls == {None, "", "http://ks:35357"}
EnvAuthUrls == {None, "", "http://env:5000"}
AuthStrategies == {"noauth", "keystone", "customstrategy"}

CredsConfs ==
    [admin_user : OptStr("admin"),
     admin_password : OptStr("secret"),
     admin_tenant_name : OptStr("service"),
     auth_url : AuthUrls,
     auth_strategy : AuthStrategies,
     auth_region : OptStr("RegionOne")]

(***************************************************************************)
(* get_registry_client (lines 137-145).                                    *)
(***************************************************************************)
\* line 140: kwargs is a new dict with the items of _CLIENT_KWARGS
KwargsAlias == [ref |-> _CLIENT_KWARGS, heap |-> heap]
KwargsCopy == [ref |-> NewId(heap), heap |-> Alloc(heap, heap[_CLIENT_KWARGS])]

\* line 142: the truth value of _CLIENT_CREDS (None and {} are false)
HaveCredsAlways == TRUE
HaveCreds == _CLIENT_CREDS # NullRef /\ DOMAIN heap[_CLIENT_CREDS] # {}

\* client.RegistryClient(host, port, metadata_encryption_key, **kwargs): the
\* wire client's constructor keeps what it is given and has no failure of its own
RegistryClient(host, port, metadata_encryption_key, kwargs) ==
    [host |-> host, port |-> port,
     metadata_encryption_key |-> metadata_encryption_key, kwargs |-> kwargs]

\* lines 140-145: the heap afterwards and the RegistryClient constructed
GetRegistryClient(cxt) ==
    LET k == KwargsCopy
        h1 == [k.heap EXCEPT ![k.ref] = DictSet(@, "auth_tok", cxt.auth_tok)]
        h2 == IF HaveCreds
              THEN [h1 EXCEPT ![k.ref] = DictSet(@, "creds", _CLIENT_CREDS)]
              ELSE h1
    IN  [heap |-> h2,
         client |-> RegistryClient(_CLIENT_HOST, _CLIENT_PORT,
                                   _METADATA_ENCRYPTION_KEY, k.ref)]

\* what a handle holds, references followed
View(h, c) ==
    LET d == h[c.kwargs] IN
    [host |-> c.host, port |-> c.port,
     metadata_encryption_key |-> c.metadata_encryption_key,
     kwargs |-> IF "creds" \in DOMAIN d /\ d["creds"] # NullRef
                THEN DictSet(d, "creds", h[d["creds"]]) ELSE d]

\* what the cache holds, references followed
CacheView ==
    [host |-> _CLIENT_HOST, port |-> _CLIENT_PORT,
     metadata_encryption_key |-> _METADATA_ENCRYPTION_KEY,
     kwargs |-> heap[_CLIENT_KWARGS],
     creds |-> IF _CLIENT_CREDS = NullRef THEN <<>> ELSE <<heap[_CLIENT_CREDS]>>]

\* the state change of one get_registry_client call made on behalf of `by`
Build(cxt, by) ==
    LET g == GetRegistryClient(cxt) IN
    /\ Len(handles) < MaxHandles
    /\ handles' = Append(handles, g.client)
    /\ heap' = Collect(g.heap, _CLIENT_KWARGS, _CLIENT_CREDS, handles')
    /\ built' = Append(built, [by |-> by, cxt |-> cxt, view |-> View(g.heap, g.client),
                               cache |-> CacheView, nCreds |-> nCreds,
                               conn |-> lastConn, gen |-> gen])

get_registry_client(cxt) ==
    /\ Build(cxt, "get_registry_client")
    /\ ret' = [op |-> "get_registry_client", raised |-> None]
    /\ UNCHANGED <<_CLIENT_CREDS, _CLIENT_HOST, _CLIENT_PORT, _CLIENT_KWARGS,
                   _METADATA_ENCRYPTION_KEY, LOG, wire, calls, nConn, nCreds,
                   gen, lastConn>>

Contexts == {[auth_tok |-> "tok"], [auth_tok |-> "tok2"]}

(***************************************************************************)
(* Initial state: the module has been imported (lines 81-86).              *)
(***************************************************************************)
Init ==
    /\ _CLIENT_CREDS = NullRef
    /\ _CLIENT_HOST = None
    /\ _CLIENT_PORT = None
    /\ _CLIENT_KWARGS = 1
    /\ heap = (1 :> EmptyDict)
    /\ _METADATA_ENCRYPTION_KEY = None
    /\ handles = <<>>
    /\ LOG = <<>>
    /\ wire = <<>>
    /\ ret = [op |-> "import", raised |-> None]
    /\ built = <<>>
    /\ calls = <<>>
    /\ nConn = 0
    /\ nCreds = 0
    /\ gen = [host |-> 0, port |-> 0, key |-> 0, kwargs |-> 0]
    /\ lastConn = [n |-> 0, raised |-> None]

(***************************************************************************)
(* The delegation operations (lines 148-204).  The wire client is outside  *)
(* this module: each of its operations returns a result or raises, and     *)
(* `wire` records what it was called with.                                 *)
(***************************************************************************)
WireOutcomes == {[kind |-> "return", value |-> "result"],
                 [kind |-> "raise", value |-> "NotFound"]}

\* the value a parameter is bound to: the caller's, or its default
Param(args, name, default) == IF name \in DOMAIN args THEN args[name] ELSE default

\* `return c.<method>(...)`: the caller gets what the wire client gave
Propagate(out) == out

\* the calls made on the client c, as written at each call site
c_get_images(kwargs) == [method |-> "get_images", args |-> <<>>, kwargs |-> kwargs]
c_get_images_detailed(kwargs) ==
    [method |-> "get_images_detailed", args |-> <<>>, kwargs |-> kwargs]
c_get_image(image_id) == [method |-> "get_image", args |-> <<image_id>>, kwargs |-> EmptyDict]
c_add_image(image_meta) ==
    [method |-> "add_image", args |-> <<image_meta>>, kwargs |-> EmptyDict]
c_update_image_no_purge(image_id, image_meta, purge_props) ==
    [method |-> "update_image", args |-> <<image_id, image_meta>>, kwargs |-> EmptyDict]
c_update_image(image_id, image_meta, purge_props) ==
    [method |-> "update_image", args |-> <<image_id, image_meta, purge_props>>,
     kwargs |-> EmptyDict]
c_delete_image(image_id) ==
    [method |-> "delete_image", args |-> <<image_id>>, kwargs |-> EmptyDict]
c_get_image_members(image_id) ==
    [method |-> "get_image_members", args |-> <<image_id>>, kwargs |-> EmptyDict]
c_get_member_images(member_id) ==
    [method |-> "get_member_images", args |-> <<member_id>>, kwargs |-> EmptyDict]
c_replace_members(image_id, member_data) ==
    [method |-> "replace_members", args |-> <<image_id, member_data>>, kwargs |-> EmptyDict]
c_add_member(image_id, member_id, can_share) ==
    [method |-> "add_member", args |-> <<image_id, member_id>>,
     kwargs |-> [can_share |-> can_share]]
c_delete_member(image_id, member_id) ==
    [method |-> "delete_member", args |-> <<image_id, member_id>>, kwargs |-> EmptyDict]

\* one delegation call: the handle, the one wire call, the return
Delegate(op, context, args, call, out) ==
    /\ Len(calls) < MaxCalls
    /\ Build(context, op)
    /\ wire' = Append(wire, [method |-> call.method, args |-> call.args,
                             kwargs |-> call.kwargs, client |-> Len(handles'),
                             outcome |-> out])
    /\ calls' = Append(calls, [op |-> op, context |-> context, args |-> args,
                               outcome |-> Propagate(out)])
    /\ ret' = [op |-> op,
               raised |-> IF Propagate(out).kind = "raise" THEN Propagate(out).value
                          ELSE None]
    /\ UNCHANGED <<_CLIENT_CREDS, _CLIENT_HOST, _CLIENT_PORT, _CLIENT_KWARGS,
                   _METADATA_ENCRYPTION_KEY, nConn, nCreds, gen, lastConn>>

Debug(msg) == <<[level |-> "debug", msg |-> msg]>>

get_images_list(context, args, out) ==
    /\ Delegate("get_images_list", context, args, c_get_images(args), out)
    /\ UNCHANGED LOG

get_images_detail(context, args, out) ==
    /\ Delegate("get_images_detail", context, args, c_get_images_detailed(args), out)
    /\ UNCHANGED LOG

get_image_metadata(context, args, out) ==
    /\ Delegate("get_image_metadata", context, args, c_get_image(args.image_id), out)
    /\ UNCHANGED LOG

add_image_metadata(context, args, out) ==
    /\ LOG' = LOG \o Debug(<<"Adding image metadata...">>)
    /\ Delegate("add_image_metadata", context, args, c_add_image(args.image_meta), out)

update_image_metadata(context, args, out) ==
    /\ LOG' = LOG \o Debug(<<"Updating image metadata for image %s...", args.image_id>>)
    /\ Delegate("update_image_metadata", context, args,
                c_update_image(args.image_id, args.image_meta,
                               Param(args, "purge_props", FALSE)), out)

delete_image_metadata(context, args, out) ==
    /\ LOG' = LOG \o Debug(<<"Deleting image metadata for image %s...", args.image_id>>)
    /\ Delegate("delete_image_metadata", context, args, c_delete_image(args.image_id), out)

get_image_members(context, args, out) ==
    /\ Delegate("get_image_members", context, args,
                c_get_image_members(args.image_id), out)
    /\ UNCHANGED LOG

get_member_images(context, args, out) ==
    /\ Delegate("get_member_images", context, args,
                c_get_member_images(args.member_id), out)
    /\ UNCHANGED LOG

replace_members(context, args, out) ==
    /\ Delegate("replace_members", context, args,
                c_replace_members(args.image_id, args.member_data), out)
    /\ UNCHANGED LOG

add_member(context, args, out) ==
    /\ Delegate("add_member", context, args,
                c_add_member(args.image_id, args.member_id,
                             Param(args, "can_share", None)), out)
    /\ UNCHANGED LOG

delete_member(context, args, out) ==
    /\ Delegate("delete_member", context, args,
                c_delete_member(args.image_id, args.member_id), out)
    /\ UNCHANGED LOG

\* the arguments callers pass (can_share is written "True" / "False")
ImageIds == {"img-1"}
MemberIds == {"tenant-1"}
ImageMetas == {[name |-> "x"]}
MemberDatas == {<<[member_id |-> "tenant-1", can_share |-> "False"]>>}
Filters == {EmptyDict, [marker |-> "img-1", limit |-> 10]}
ByImage == [image_id : ImageIds]
ByMember == [member_id : MemberIds]
AddArgs == [image_meta : ImageMetas]
UpdateArgs == [image_id : ImageIds, image_meta : ImageMetas]
              \cup [image_id : ImageIds, image_meta : ImageMetas, purge_props : BOOLEAN]
ReplaceArgs == [image_id : ImageIds, member_data : MemberDatas]
MemberArgs == [image_id : ImageIds, member_id : MemberIds]
AddMemberArgs == MemberArgs
                 \cup [image_id : ImageIds, member_id : MemberIds,
                       can_share : {"True", "False"}]

(***************************************************************************)
(* Credential resolution alone, over every combination of its inputs.      *)
(***************************************************************************)
NextCreds ==
    \E conf \in CredsConfs, e \in EnvAuthUrls : configure_registry_admin_creds(conf, e)

SpecCreds == Init /\ [][NextCreds]_vars

(***************************************************************************)
(* Connection resolution and client construction.                          *)
(***************************************************************************)
NextConn ==
    \/ \E conf \in ConnConfs : configure_registry_client(conf)
    \/ \E cxt \in Contexts : get_registry_client(cxt)

SpecConn == Init /\ [][NextConn]_vars

(***************************************************************************)
(* The resolver and the factory together.                                  *)
(***************************************************************************)
SomeConnConfs == {SiteA, SiteB,
                  [SiteB EXCEPT !.errors = ("registry_client_timeout" :> ConfigFileValueError)]}

SomeCredsConfs ==
    {[admin_user |-> "admin", admin_password |-> "secret",
      admin_tenant_name |-> "service", auth_url |-> "http://ks:35357",
      auth_strategy |-> "noauth", auth_region |-> "RegionOne"],
     [admin_user |-> None, admin_password |-> None, admin_tenant_name |-> None,
      auth_url |-> None, auth_strategy |-> "noauth", auth_region |-> None]}

Next ==
    \/ \E conf \in SomeConnConfs : configure_registry_client(conf)
    \/ \E conf \in SomeCredsConfs : configure_registry_admin_creds(conf, None)
    \/ \E cxt \in Contexts : get_registry_client(cxt)

Spec == Init /\ [][Next]_vars

(***************************************************************************)
(* The delegation surface over a resolved or unresolved cache.             *)
(***************************************************************************)
NextDeleg ==
    \/ \E cxt \in Contexts : get_registry_client(cxt)
    \/ \E cxt \in Contexts, out \in WireOutcomes :
        \/ \E a \in Filters : get_images_list(cxt, a, out)
        \/ \E a \in Filters : get_images_detail(cxt, a, out)
        \/ \E a \in ByImage : get_image_metadata(cxt, a, out)
        \/ \E a \in AddArgs : add_image_metadata(cxt, a, out)
        \/ \E a \in UpdateArgs : update_image_metadata(cxt, a, out)
        \/ \E a \in ByImage : delete_image_metadata(cxt, a, out)
        \/ \E a \in ByImage : get_image_members(cxt, a, out)
        \/ \E a \in ByMember : get_member_images(cxt, a, out)
        \/ \E a \in ReplaceArgs : replace_members(cxt, a, out)
        \/ \E a \in AddMemberArgs : add_member(cxt, a, out)
        \/ \E a \in MemberArgs : delete_member(cxt, a, out)

SpecDeleg == Init /\ [][NextDeleg]_vars

(***************************************************************************)
(* The properties.                                                         *)
(***************************************************************************)
\* an auth endpoint is configured: the value is present and not empty
EndpointConfigured(v) == v # None /\ v # ""

IsCredsCall == ret.op = "configure_registry_admin_creds"
IsConnCall == ret.op = "configure_registry_client"

\* C1: after configure_registry_admin_creds, the cached strategy is "keystone"
\* if an auth endpoint is configured by auth_url or by OS_AUTH_URL, whatever
\* auth_strategy says, and is auth_strategy verbatim otherwise.
C1_StrategyRule ==
    IsCredsCall =>
        heap[_CLIENT_CREDS].strategy =
            IF EndpointConfigured(ret.conf.auth_url) \/ EndpointConfigured(ret.os_auth_url)
            THEN "keystone"
            ELSE ret.conf.auth_strategy

\* the environment alone forces keystone over a configured "noauth"
C1_Witness ==
    /\ IsCredsCall
    /\ ret.conf.auth_url = None
    /\ ret.os_auth_url = "http://env:5000"
    /\ ret.conf.auth_strategy = "noauth"
    /\ heap[_CLIENT_CREDS].strategy = "keystone"

\* C2 (as claimed): whenever configure_registry_client fails, it fails with
\* BadRegistryConnectionConfiguration and has logged an entry of severity error
\* during the call.
C2_SameErrorKindLogged ==
    (IsConnCall /\ ret.raised # None) =>
        /\ ret.raised = BadRegistryConnectionConfiguration
        /\ \E i \in DOMAIN ret.emitted : ret.emitted[i].level = "error"
        /\ Len(LOG) >= Len(ret.emitted)
        /\ SubSeq(LOG, Len(LOG) - Len(ret.emitted) + 1, Len(LOG)) = ret.emitted

\* handle i was built while the latest configure_registry_client call was a
\* successful one
C3_AfterSuccess(i) == built[i].conn.n > 0 /\ built[i].conn.raised = None

\* handle i holds the configuration of that call and the context's token
C3_Fields(i) ==
    LET c == built[i].conn.conf
        h == handles[i]
        k == heap[h.kwargs]
    IN  /\ h.host = c.registry_host
        /\ h.port = c.registry_port
        /\ h.metadata_encryption_key = c.metadata_encryption_key
        /\ k.key_file = c.registry_client_key_file
        /\ k.cert_file = c.registry_client_cert_file
        /\ k.ca_file = c.registry_client_ca_file
        /\ k.insecure = c.registry_client_insecure
        /\ k.timeout = c.registry_client_timeout
        /\ k.auth_tok = built[i].cxt.auth_tok

\* C3 (amended): a handle built after a successful configure_registry_client
\* holds the configured host, port, key file, cert file, CA file, insecure flag,
\* timeout and encryption key, the context's auth token, and a TLS flag that is
\* true exactly when the configured protocol, lower-cased, is "https".
C3_HandleMatchesConfig ==
    \A i \in DOMAIN handles :
        C3_AfterSuccess(i) =>
            /\ C3_Fields(i)
            /\ heap[handles[i].kwargs].use_ssl =
                   (lower(built[i].conn.conf.registry_client_protocol) = https)

\* C3 (as claimed): the same, with a TLS flag that is true for the protocol
\* "https" and false for anything else.
C3_TlsOnlyForExactHttps ==
    \A i \in DOMAIN handles :
        C3_AfterSuccess(i) =>
            /\ C3_Fields(i)
            /\ heap[handles[i].kwargs].use_ssl =
                   (built[i].conn.conf.registry_client_protocol = https)

\* a handle built from protocol "HTTPS" has TLS on and carries the token "tok"
C3_Witness ==
    \E i \in DOMAIN handles :
        /\ built[i].conn.n > 0
        /\ built[i].conn.raised = None
        /\ built[i].conn.conf.registry_client_protocol = <<"H", "T", "T", "P", "S">>
        /\ built[i].conn.conf.registry_host = "10.0.0.5"
        /\ handles[i].host = "10.0.0.5"
        /\ heap[handles[i].kwargs].use_ssl = TRUE
        /\ heap[handles[i].kwargs].insecure = TRUE
        /\ heap[handles[i].kwargs].auth_tok = "tok"

\* C4: get_registry_client does not raise, and a handle has "creds" exactly when
\* a configure_registry_admin_creds call completed before it was built; the
\* creds it has are the ones cached when it was built.
C4_CredsIffResolved ==
    /\ ret.op = "get_registry_client" => ret.raised = None
    /\ \A i \in DOMAIN handles :
        LET k == heap[handles[i].kwargs] IN
        /\ "creds" \in DOMAIN k <=> built[i].nCreds > 0
        /\ "creds" \in DOMAIN k => built[i].cache.creds = <<heap[k.creds]>>

\* one handle built before any credential resolution, one built after
C4_Witness ==
    /\ Len(handles) = 2
    /\ built[1].nCreds = 0
    /\ "creds" \notin DOMAIN heap[handles[1].kwargs]
    /\ built[2].nCreds > 0
    /\ "creds" \in DOMAIN heap[handles[2].kwargs]
    /\ heap[heap[handles[2].kwargs].creds].user = "admin"

\* what the claim says each operation calls on the wire client
C5_Expected(c) ==
    CASE c.op = "get_images_list" ->
            [method |-> "get_images", args |-> <<>>, kwargs |-> c.args]
      [] c.op = "get_images_detail" ->
            [method |-> "get_images_detailed", args |-> <<>>, kwargs |-> c.args]
      [] c.op = "get_image_metadata" ->
            [method |-> "get_image", args |-> <<c.args.image_id>>, kwargs |-> EmptyDict]
      [] c.op = "add_image_metadata" ->
            [method |-> "add_image", args |-> <<c.args.image_meta>>, kwargs |-> EmptyDict]
      [] c.op = "update_image_metadata" ->
            [method |-> "update_image",
             args |-> <<c.args.image_id, c.args.image_meta,
                        IF "purge_props" \in DOMAIN c.args THEN c.args.purge_props
                        ELSE FALSE>>,
             kwargs |-> EmptyDict]
      [] c.op = "delete_image_metadata" ->
            [method |-> "delete_image", args |-> <<c.args.image_id>>, kwargs |-> EmptyDict]
      [] c.op = "get_image_members" ->
            [method |-> "get_image_members", args |-> <<c.args.image_id>>,
             kwargs |-> EmptyDict]
      [] c.op = "get_member_images" ->
            [method |-> "get_member_images", args |-> <<c.args.member_id>>,
             kwargs |-> EmptyDict]
      [] c.op = "replace_members" ->
            [method |-> "replace_members",
             args |-> <<c.args.image_id, c.args.member_data>>, kwargs |-> EmptyDict]
      [] c.op = "add_member" ->
            [method |-> "add_member", args |-> <<c.args.image_id, c.args.member_id>>,
             kwargs |-> [can_share |-> IF "can_share" \in DOMAIN c.args
                                       THEN c.args.can_share ELSE None]]
      [] c.op = "delete_member" ->
            [method |-> "delete_member", args |-> <<c.args.image_id, c.args.member_id>>,
             kwargs |-> EmptyDict]

\* C5: the n-th delegation call built one handle of its own from its context,
\* made the n-th wire call, the one the operation corresponds to with the
\* caller's arguments (purge_props defaulting to False, can_share to None), and
\* ended the way that wire call ended; there are no other wire calls.
C5_Delegation ==
    /\ Len(wire) = Len(calls)
    /\ Cardinality({i \in DOMAIN built : built[i].by # "get_registry_client"}) = Len(calls)
    /\ \A n \in DOMAIN calls :
        LET c == calls[n]
            w == wire[n]
            e == C5_Expected(c)
        IN  /\ w.method = e.method
            /\ Len(w.args) = Len(e.args)
            /\ w.args = e.args
            /\ w.kwargs = e.kwargs
            /\ c.outcome = w.outcome
            /\ w.client \in DOMAIN handles
            /\ built[w.client].by = c.op
            /\ heap[handles[w.client].kwargs].auth_tok = c.context.auth_tok
            /\ \A m \in DOMAIN wire : m # n => wire[m].client # w.client
    /\ (calls # <<>> /\ ret.op # "get_registry_client") =>
        LET c == calls[Len(calls)] IN
        /\ ret.op = c.op
        /\ ret.raised = IF c.outcome.kind = "raise" THEN c.outcome.value ELSE None

\* an update with purge_props=True that the wire client fails with NotFound,
\* after an add_member that left can_share out
C5_Witness ==
    /\ Len(calls) = 2
    /\ calls[1].op = "add_member"
    /\ "can_share" \notin DOMAIN calls[1].args
    /\ wire[1].kwargs = [can_share |-> None]
    /\ calls[2].op = "update_image_metadata"
    /\ "purge_props" \in DOMAIN calls[2].args
    /\ calls[2].args.purge_props = TRUE
    /\ wire[2].args = <<"img-1", [name |-> "x"], TRUE>>
    /\ wire[2].outcome.kind = "raise"
    /\ ret.raised = "NotFound"

\* C6: a step that builds a handle leaves the cached host, port, encryption key,
\* transport options and admin credentials as they were, and the cached transport
\* options never hold the auth token.
C6_BuildLeavesCache ==
    [][Len(handles') > Len(handles) =>
        /\ CacheView' = CacheView
        /\ _CLIENT_KWARGS' = _CLIENT_KWARGS
        /\ _CLIENT_CREDS' = _CLIENT_CREDS
        /\ "auth_tok" \notin DOMAIN heap'[_CLIENT_KWARGS']]_vars

\* a handle built over a resolved cache holds the token; the cache does not
C6_Witness ==
    /\ Len(handles) > 0
    /\ built[1].conn.n > 0
    /\ built[1].conn.raised = None
    /\ built[1].nCreds > 0
    /\ heap[handles[1].kwargs].auth_tok = "tok"
    /\ "auth_tok" \notin DOMAIN heap[_CLIENT_KWARGS]
    /\ DOMAIN heap[_CLIENT_KWARGS] # {}

\* C7: configure_registry_admin_creds does not raise, and the cached credentials
\* are those of the latest call: user, username, password, tenant, auth_url and
\* region are the configured values, None included, whatever OS_AUTH_URL is.
C7_CredsVerbatim ==
    /\ nCreds > 0 <=> _CLIENT_CREDS # NullRef
    /\ IsCredsCall =>
        /\ ret.raised = None
        /\ LET d == heap[_CLIENT_CREDS] IN
           /\ DOMAIN d = {"user", "password", "username", "tenant", "auth_url",
                          "strategy", "region"}
           /\ d.user = ret.conf.admin_user
           /\ d.username = ret.conf.admin_user
           /\ d.password = ret.conf.admin_password
           /\ d.tenant = ret.conf.admin_tenant_name
           /\ d.auth_url = ret.conf.auth_url
           /\ d.region = ret.conf.auth_region

\* a second resolution with nothing configured but OS_AUTH_URL: keystone, and
\* the cached auth_url stays None
C7_Witness ==
    /\ IsCredsCall
    /\ nCreds = 2
    /\ ret.conf.admin_user = None
    /\ ret.conf.auth_url = None
    /\ ret.os_auth_url = "http://env:5000"
    /\ heap[_CLIENT_CREDS].auth_url = None
    /\ heap[_CLIENT_CREDS].user = None
    /\ heap[_CLIENT_CREDS].strategy = "keystone"

\* C8 (as claimed): a configure_registry_client call that raises leaves the
\* cached host, port, encryption key and transport options as they were.
C8_FailedResolveLeavesCache ==
    [][(nConn' = nConn + 1 /\ ret'.raised # None) =>
        /\ _CLIENT_HOST' = _CLIENT_HOST
        /\ _CLIENT_PORT' = _CLIENT_PORT
        /\ _METADATA_ENCRYPTION_KEY' = _METADATA_ENCRYPTION_KEY
        /\ heap'[_CLIENT_KWARGS'] = heap[_CLIENT_KWARGS]]_vars

\* C9 (as claimed): with every call atomic, the host, port, encryption key and
\* transport options of a handle were all written by one and the same
\* configure_registry_client call.
C9_OneResolutionPerHandle ==
    \A i \in DOMAIN handles :
        LET g == built[i].gen IN
        /\ g.host = g.kwargs
        /\ g.port = g.kwargs
        /\ g.key = g.kwargs

\* C10: every handle still holds what it held when it was built, and no two
\* handles, and no handle and the cache, share a transport options dict.
C10_HandlesAreSnapshots ==
    \A i \in DOMAIN handles :
        /\ View(heap, handles[i]) = built[i].view
        /\ handles[i].kwargs # _CLIENT_KWARGS
        /\ \A j \in DOMAIN handles : j # i => handles[j].kwargs # handles[i].kwargs

\* a handle built before the connection and the credentials were resolved
\* again, and one built after: they differ, and the first is as it was
C10_Witness ==
    /\ Len(handles) = 2
    /\ built[1].conn.n = 1
    /\ built[1].nCreds = 1
    /\ built[2].conn.n = 2
    /\ built[2].conn.raised = None
    /\ built[2].nCreds = 2
    /\ handles[1].host # handles[2].host
    /\ heap[heap[handles[1].kwargs].creds] # heap[heap[handles[2].kwargs].creds]
    /\ View(heap, handles[1]) = built[1].view

====
